---- MODULE Spec2Model ----
(***************************************************************************)
(* gotemplate: instantiation of a template file (main.go).                 *)
(*                                                                         *)
(* A Go string is a sequence of bytes; a byte is written as a one-token    *)
(* TLA+ string ("S", ",", " ") and a byte >= 0x80 by its hex value         *)
(* ("C3", "89").  An identifier is such a sequence.                        *)
(***************************************************************************)
EXTENDS Integers, Sequences, FiniteSets, TLC

\* ------------------------------------------------------------------ bounds
MaxDecls == 3
MaxComments == 2

\* ------------------------------------------------------------- characters
UpperAscii == <<"A","B","C","D","E","F","G","H","I","J","K","L","M",
                "N","O","P","Q","R","S","T","U","V","W","X","Y","Z">>
LowerAscii == <<"a","b","c","d","e","f","g","h","i","j","k","l","m",
                "n","o","p","q","r","s","t","u","v","w","x","y","z">>

Range(s) == { s[i] : i \in DOMAIN s }

IsUpperAscii(b) == b \in Range(UpperAscii)

\* bytes >= 0x80 used by the identifiers of the model:
\* U+00C9 (upper-case E acute) is C3 89, U+00E9 (lower-case) is C3 A9,
\* U+FFFD (the replacement character) is EF BF BD
HighBytes == {"C3", "89", "A9", "EF", "BF", "BD"}

UpperE == <<"C3", "89">>
LowerE == <<"C3", "A9">>
RuneError == <<"EF", "BF", "BD">>

\* the space characters strings.TrimSpace removes
IsSpace(b) == b = " "

\* ---------------------------------------------------------------- strings
Str_A == <<"A">>
Str_int == <<"i","n","t">>
Str_Set == <<"S","e","t">>
Str_New == <<"N","e","w">>
Str_NewSet == <<"N","e","w","S","e","t">>
Str_Add == <<"A","d","d">>
Str_El == <<"C3","89","l">>
Str_IntSet == <<"I","n","t","S","e","t">>
Str_intSet == <<"i","n","t","S","e","t">>
Str_set == <<"s","e","t">>
Str_x == <<"x">>
Str_mypkg == <<"m","y","p","k","g">>

HasPrefixAt(s, sub, i) ==
    /\ i + Len(sub) - 1 <= Len(s)
    /\ SubSeq(s, i, i + Len(sub) - 1) = sub

\* strings.Index: the position of the first occurrence of sub in s, 0 if none
Index(s, sub) ==
    LET hits == { i \in 1..(Len(s) + 1) : HasPrefixAt(s, sub, i) }
    IN IF hits = {} THEN 0
       ELSE CHOOSE i \in hits : \A j \in hits : i <= j

Contains(s, sub) == Index(s, sub) # 0

\* strings.Replace(s, old, new, 1)
Replace1(s, old, new) ==
    LET i == Index(s, old)
    IN IF i = 0 THEN s
       ELSE SubSeq(s, 1, i - 1) \o new \o SubSeq(s, i + Len(old), Len(s))

\* strings.Split(s, ","): always at least one item, "" gives <<"">>
RECURSIVE Split(_)
Split(s) ==
    LET i == Index(s, <<",">>)
    IN IF i = 0 THEN << s >>
       ELSE << SubSeq(s, 1, i - 1) >> \o Split(SubSeq(s, i + 1, Len(s)))

RECURSIVE TrimLeft(_)
TrimLeft(s) ==
    IF s # << >> /\ IsSpace(Head(s)) THEN TrimLeft(Tail(s)) ELSE s

RECURSIVE TrimRight(_)
TrimRight(s) ==
    IF s # << >> /\ IsSpace(s[Len(s)])
    THEN TrimRight(SubSeq(s, 1, Len(s) - 1)) ELSE s

TrimSpace(s) == TrimRight(TrimLeft(s))

\* ast.IsExported: the first rune of the name is an upper-case letter
IsExported(name) ==
    /\ name # << >>
    /\ \/ IsUpperAscii(name[1])
       \/ HasPrefixAt(name, UpperE, 1)

\* The two behaviours of strings.Map (under strings.ToLower) on a byte that
\* is not valid UTF-8, by the Go release the program is built with: old
\* releases keep the byte, newer ones write U+FFFD
Builds == {"keep", "replace"}

\* strings.ToLower of a one-byte string: an ASCII letter is lower-cased; a
\* lone byte >= 0x80 is not valid UTF-8
ToLowerByte(b, bld) ==
    IF IsUpperAscii(b)
    THEN << LowerAscii[CHOOSE i \in DOMAIN UpperAscii : UpperAscii[i] = b] >>
    ELSE IF b \in HighBytes /\ bld = "replace" THEN RuneError
    ELSE << b >>

\* ------------------------------------------------------------- parseArgs
RECURSIVE TrimAll(_)
TrimAll(items) ==
    IF items = << >> THEN << >>
    ELSE << TrimSpace(Head(items)) >> \o TrimAll(Tail(items))

\* parseArgs: split on commas, trim every item
parseArgs(s) == TrimAll(Split(s))

\* containsString
containsString(needle, haystack) == needle \in Range(haystack)

\* ------------------------------------------------------ the template file
\* A comment is what matchTemplateType.FindStringSubmatch gives for it: no
\* match, or the template name (\w+) and the text between the parentheses.
NoMatch == [match |-> FALSE, name |-> << >>, params |-> << >>]
Annotation(n, p) == [match |-> TRUE, name |-> n, params |-> p]

CommentPool ==
    { NoMatch,
      Annotation(Str_Set, << >>),
      Annotation(Str_Set, <<"A">>),
      Annotation(Str_Set, <<"A", ",", " ", "B">>),
      Annotation(Str_Set, Str_Set) }

\* A top-level declaration: its kind, the number of specs of a GenDecl, the
\* identifiers it declares and the other identifiers that occur in it.
Decl(k, n, ns, us) == [kind |-> k, nspecs |-> n, names |-> ns, uses |-> us]

\* the declarations a template file is made of, in source order
DeclPool ==
    << Decl("import", 1, << >>, << >>),
       Decl("type", 1, << Str_A >>, << Str_int >>),
       Decl("type", 1, << Str_Set >>, << Str_A >>),
       Decl("func", 1, << Str_NewSet >>, << Str_Set >>),
       Decl("func", 1, << Str_New >>, << Str_Set, Str_A >>),
       Decl("var", 1, << Str_A >>, << >>),
       Decl("type", 1, << Str_El >>, << Str_Set >>),
       Decl("method", 1, << Str_Add >>, << Str_Set, Str_A >>),
       Decl("const", 2, << Str_x >>, << >>) >>

\* the declarations of DeclPool at the positions of idx, in source order
RECURSIVE Pick(_, _)
Pick(idx, from) ==
    IF from > Len(DeclPool) THEN << >>
    ELSE (IF from \in idx THEN << DeclPool[from] >> ELSE << >>)
         \o Pick(idx, from + 1)

TemplateDecls ==
    { Pick(idx, 1) : idx \in { x \in SUBSET (1..Len(DeclPool)) :
                                  Cardinality(x) <= MaxDecls } }

RECURSIVE SeqsUpTo(_, _)
SeqsUpTo(S, n) ==
    IF n = 0 THEN { << >> }
    ELSE LET shorter == SeqsUpTo(S, n - 1)
         IN shorter \cup { Append(q, e) : q \in shorter, e \in S }

TemplateComments == SeqsUpTo(CommentPool, MaxComments)

\* the command line: Name(ArgString)
RequestNames == { Str_IntSet, Str_intSet, Str_A }
RequestArgStrings == { << >>, <<" ", "i","n","t">>, <<"B", ",", " ", "i","n","t">> }

\* ------------------------------------------------------------------ state
VARIABLES
    template,       \* the template file: its comments and declarations
    argString,      \* the text between the parentheses of the command line
    build,          \* the Go release's strings.Map behaviour, see Builds
    ti,             \* the templateInstantiation
    decls,          \* f.Decls
    pkgName,        \* f.Name.Name
    templateName,
    templateArgs,
    namesToMangle,
    mappings,
    pending,        \* the keys of mappings the range loop has not yet visited
    newFile,        \* the declarations of newFile
    files,          \* the files of the working directory: name -> content
    pc,
    fatal,          \* which fatal condition ended the run, "" if none
    run,            \* the first or the second run of the same request
    prevFiles       \* the files as the first run left them

vars == << template, argString, build, ti, decls, pkgName, templateName,
           templateArgs, namesToMangle, mappings, pending, newFile, files,
           pc, fatal, run, prevFiles >>

EmptyMap == [k \in {} |-> << >>]

\* m[k] = v of a Go map
Put(m, k, v) == [x \in (DOMAIN m) \cup {k} |-> IF x = k THEN v ELSE m[x]]

\* ----------------------------------------------------- directive scanner
ScanCommentsLastWins(cs) ==
    LET hits == { i \in DOMAIN cs : cs[i].match }
        last == CHOOSE i \in hits : \A j \in hits : j <= i
    IN IF hits = {}
       THEN [fatal |-> "notemplate", name |-> << >>, args |-> << >>]
       ELSE [fatal |-> "", name |-> cs[last].name,
             args |-> parseArgs(cs[last].params)]

\* the loop over f.Comments: acc is [fatal, name, args]
RECURSIVE ScanFrom(_, _)
ScanFrom(cs, acc) ==
    IF cs = << >> THEN acc
    ELSE LET x == Head(cs)
         IN IF ~x.match THEN ScanFrom(Tail(cs), acc)
            ELSE IF acc.name # << >>
            THEN [acc EXCEPT !.fatal = "multiple"]
            ELSE ScanFrom(Tail(cs),
                          [acc EXCEPT !.name = x.name,
                                      !.args = parseArgs(x.params)])

ScanComments(cs) ==
    LET r == ScanFrom(cs, [fatal |-> "", name |-> << >>, args |-> << >>])
    IN IF r.fatal = "" /\ r.name = << >>
       THEN [r EXCEPT !.fatal = "notemplate"]
       ELSE r

\* ------------------------------------------------- declaration classifier
IsStubFuncOnly(d, targs) ==
    /\ d.kind = "func"
    /\ containsString(d.names[1], targs)

\* remove = containsString(name, templateArgs), for a type or a function
IsStub(d, targs) ==
    /\ d.kind \in {"type", "func"}
    /\ containsString(d.names[1], targs)

\* the loop over f.Decls: acc is [fatal, names, kept]
RECURSIVE ClassifyFrom(_, _, _)
ClassifyFrom(ds, targs, acc) ==
    IF ds = << >> THEN acc
    ELSE LET d == Head(ds)
         IN IF d.kind \in {"const", "var", "type"} /\ d.nspecs # 1
            THEN [acc EXCEPT !.fatal = "specs"]
            ELSE ClassifyFrom(Tail(ds), targs,
                   [acc EXCEPT
                      !.names = IF d.kind \in {"const", "var", "type", "func"}
                                THEN @ \o d.names ELSE @,
                      !.kept = IF IsStub(d, targs) THEN @ ELSE Append(@, d)])

Classify(ds, targs) ==
    ClassifyFrom(ds, targs, [fatal |-> "", names |-> << >>, kept |-> << >>])

\* --------------------------------------------------------- mapping builder
\* for i := range ti.Args { mappings[templateArgs[i]] = ti.Args[i] }
RECURSIVE MapArgs(_, _, _, _)
MapArgs(m, targs, args, i) ==
    IF i > Len(args) THEN m
    ELSE MapArgs(Put(m, targs[i], args[i]), targs, args, i + 1)

\* the replacement name addMapping computes
ReplacementName(name, tname, newName, bld) ==
    LET r == IF ~Contains(name, tname)
             THEN name \o newName
             ELSE Replace1(name, tname, newName)
    IN IF ~IsExported(newName) /\ IsExported(r)
       THEN ToLowerByte(r[1], bld) \o SubSeq(r, 2, Len(r))
       ELSE r

\* whether the loop over namesToMangle calls addMapping for name
Registers(m, name, tname) == name = tname \/ name \notin DOMAIN m

RECURSIVE MangleFrom(_, _, _, _, _)
MangleFrom(m, names, tname, newName, bld) ==
    IF names = << >> THEN m
    ELSE LET name == Head(names)
             m2 == IF Registers(m, name, tname)
                   THEN Put(m, name, ReplacementName(name, tname, newName, bld))
                   ELSE m
         IN MangleFrom(m2, Tail(names), tname, newName, bld)

MakeMappings(targs, args, names, tname, newName, bld) ==
    MangleFrom(MapArgs(EmptyMap, targs, args, 1), names, tname, newName, bld)

\* ------------------------------------------------------ identifier rewriter
\* parseExpr ends the run when its text is not an expression: the empty
\* string is the one such text among the names of the model
parseExprFails(text) == text = << >>

RewriteIdents(pat, rep, ids) ==
    [i \in DOMAIN ids |-> IF ids[i] = pat THEN rep ELSE ids[i]]

\* rewriteFile: every identifier named pat becomes rep
rewriteFile(pat, rep, file) ==
    [i \in DOMAIN file |->
        [file[i] EXCEPT !.names = RewriteIdents(pat, rep, @),
                        !.uses = RewriteIdents(pat, rep, @)]]

\* ------------------------------------------------------------------ emitter
Str_prefix == <<"g","o","t","e","m","p","l","a","t","e","_">>
Str_suffix == <<".","g","o">>

outputFileName(newName) == Str_prefix \o newName \o Str_suffix

\* ----------------------------------------------------------------- actions
Init ==
    /\ template \in [package : {Str_set}, comments : TemplateComments,
                    decls : TemplateDecls]
    /\ argString \in RequestArgStrings
    /\ build \in Builds
    /\ \E n \in RequestNames :
          ti = [Name |-> n, Args |-> parseArgs(argString),
                NewPackage |-> Str_mypkg]
    /\ decls = << >>
    /\ pkgName = << >>
    /\ templateName = << >>
    /\ templateArgs = << >>
    /\ namesToMangle = << >>
    /\ mappings = EmptyMap
    /\ pending = {}
    /\ newFile = << >>
    /\ files = EmptyMap
    /\ pc = "start"
    /\ fatal = ""
    /\ run = "first"
    /\ prevFiles = EmptyMap

Fatal(what) == pc' = "fatal" /\ fatal' = what

\* parseFile and the inspection of the comments
Scan ==
    /\ pc = "start"
    /\ LET r == ScanComments(template.comments)
       IN /\ decls' = template.decls
          /\ pkgName' = template.package
          /\ templateName' = r.name
          /\ templateArgs' = r.args
          /\ IF r.fatal # "" THEN Fatal(r.fatal)
             ELSE pc' = "check" /\ fatal' = fatal
    /\ UNCHANGED << template, argString, build, ti, namesToMangle, mappings,
                    pending, newFile, files, run, prevFiles >>

\* len(templateArgs) != len(ti.Args)
CheckArgs ==
    /\ pc = "check"
    /\ IF Len(templateArgs) # Len(ti.Args) THEN Fatal("wrongargs")
       ELSE pc' = "classify" /\ fatal' = fatal
    /\ UNCHANGED << template, argString, build, ti, decls, pkgName,
                    templateName, templateArgs, namesToMangle, mappings,
                    pending, newFile, files, run, prevFiles >>

\* the names to mangle, and f.Decls = newDecls
ClassifyDecls ==
    /\ pc = "classify"
    /\ LET r == Classify(decls, templateArgs)
       IN /\ namesToMangle' = r.names
          /\ IF r.fatal # ""
             THEN Fatal(r.fatal) /\ decls' = decls
             ELSE pc' = "map" /\ fatal' = fatal /\ decls' = r.kept
    /\ UNCHANGED << template, argString, build, ti, pkgName, templateName,
                    templateArgs, mappings, pending, newFile, files, run,
                    prevFiles >>

\* the name mappings, and the check that the template type is defined
BuildMappings ==
    /\ pc = "map"
    /\ mappings' = MakeMappings(templateArgs, ti.Args, namesToMangle,
                                templateName, ti.Name, build)
    /\ IF ~containsString(templateName, namesToMangle)
       THEN Fatal("nodefinition") /\ pending' = pending /\ newFile' = newFile
       ELSE /\ pc' = "rewrite" /\ fatal' = fatal
            /\ pending' = DOMAIN mappings'
            /\ newFile' = decls
    /\ UNCHANGED << template, argString, build, ti, decls, pkgName,
                    templateName, templateArgs, namesToMangle, files, run,
                    prevFiles >>

\* one iteration of the range over mappings; Go visits the keys of a map
\* in an unspecified order
RewriteStep ==
    /\ pc = "rewrite"
    /\ \E name \in pending :
          IF parseExprFails(name) \/ parseExprFails(mappings[name])
          THEN Fatal("parseexpr") /\ UNCHANGED << newFile, pending >>
          ELSE /\ newFile' = rewriteFile(name, mappings[name], newFile)
               /\ pending' = pending \ {name}
               /\ UNCHANGED << pc, fatal >>
    /\ UNCHANGED << template, argString, build, ti, decls, pkgName,
                    templateName, templateArgs, namesToMangle, mappings,
                    files, run, prevFiles >>

\* the package clause and the output file
Emit ==
    /\ pc = "rewrite"
    /\ pending = {}
    /\ pkgName' = ti.NewPackage
    /\ files' = Put(files, outputFileName(ti.Name),
                    [package |-> ti.NewPackage, decls |-> newFile])
    /\ pc' = "done"
    /\ UNCHANGED << template, argString, build, ti, decls, templateName,
                    templateArgs, namesToMangle, mappings, pending, newFile,
                    fatal, run, prevFiles >>

\* the same command is run again in the same directory
RunAgain ==
    /\ pc = "done"
    /\ run = "first"
    /\ run' = "second"
    /\ prevFiles' = files
    /\ pc' = "start"
    /\ decls' = << >>
    /\ pkgName' = << >>
    /\ templateName' = << >>
    /\ templateArgs' = << >>
    /\ namesToMangle' = << >>
    /\ mappings' = EmptyMap
    /\ pending' = {}
    /\ newFile' = << >>
    /\ UNCHANGED << template, argString, build, ti, files, fatal >>

Next ==
    \/ Scan
    \/ CheckArgs
    \/ ClassifyDecls
    \/ BuildMappings
    \/ RewriteStep
    \/ Emit
    \/ RunAgain

Spec == Init /\ [][Next]_vars

\* ---------------------------------------------------------------- claims
Output == files[outputFileName(ti.Name)]

MatchingComments ==
    { i \in DOMAIN template.comments : template.comments[i].match }

TheAnnotation == template.comments[CHOOSE i \in MatchingComments : TRUE]

\* the number of items of a parameter list as the specification counts
\* them: none for an empty or wholly-whitespace list
ListCount(s) == IF TrimSpace(s) = << >> THEN 0 ELSE Len(Split(s))

MappingsComplete == pc \in {"rewrite", "done"}

Declares(d) == d.kind \in {"type", "func", "const", "var"}

\* one simultaneous substitution of the mapping
SubstIdents(m, ids) ==
    [i \in DOMAIN ids |-> IF ids[i] \in DOMAIN m THEN m[ids[i]] ELSE ids[i]]

SubstFile(m, file) ==
    [i \in DOMAIN file |->
        [file[i] EXCEPT !.names = SubstIdents(m, @),
                        !.uses = SubstIdents(m, @)]]

\* C1: once every entry of the mapping has been applied, the tree is the
\* one a single simultaneous substitution of the mapping gives, whatever
\* the order in which the entries were applied.
C1_SimultaneousSubstitution ==
    (pc = "done" \/ (pc = "rewrite" /\ pending = {}))
        => newFile = SubstFile(mappings, decls)

\* C2: the second run of the same request writes the same file, with the
\* same content, as the first.
C2_SameOutputTwice ==
    (run = "second" /\ pc = "done")
        => /\ DOMAIN files = { outputFileName(ti.Name) }
           /\ files = prevFiles

\* C3: when the number of concrete arguments differs from the number of
\* formal parameters of the template annotation, parse ends in the
\* wrong-number-of-arguments fatal condition, with no declaration removed,
\* no identifier rewritten and no file written.
C3_WrongNumberIsFatal ==
    ( /\ Cardinality(MatchingComments) = 1
      /\ ListCount(argString) # ListCount(TheAnnotation.params)
      /\ pc \notin {"start", "check"} )
        => /\ pc = "fatal"
           /\ fatal = "wrongargs"
           /\ decls = template.decls
           /\ newFile = << >>
           /\ files = prevFiles

\* C4: when the instantiation name is not exported, no type, non-method
\* function, constant or variable declared by the output has an exported
\* name.
C4_NothingExported ==
    (pc = "done" /\ ~IsExported(ti.Name))
        => \A i \in DOMAIN Output.decls :
              Declares(Output.decls[i])
                  => \A j \in DOMAIN Output.decls[i].names :
                        ~IsExported(Output.decls[i].names[j])

\* C5 as stated: the emitted declaration list holds no type declaration
\* whose name, after every mapping has been applied, is a formal parameter.
C5_NoTypeNamedAsParameter ==
    pc = "done"
        => \A i \in DOMAIN Output.decls :
              Output.decls[i].kind = "type"
                  => ~containsString(Output.decls[i].names[1], templateArgs)

\* C5 as amended: the emitted declaration list holds no type declaration
\* that the template names as a formal parameter; the emitted declarations
\* are the kept ones, one for one.
C5_StubTypesRemoved ==
    pc = "done"
        => /\ Len(Output.decls) = Len(decls)
           /\ \A i \in DOMAIN decls :
                 /\ Output.decls[i].kind = decls[i].kind
                 /\ decls[i].kind = "type"
                       => ~containsString(decls[i].names[1], templateArgs)

C5_Witness ==
    /\ pc = "done"
    /\ \E i \in DOMAIN template.decls :
          /\ template.decls[i].kind = "type"
          /\ containsString(template.decls[i].names[1], templateArgs)
    /\ \E i \in DOMAIN Output.decls : Output.decls[i].kind = "type"

NoSpaceAround(s) ==
    s = << >> \/ (~IsSpace(s[1]) /\ ~IsSpace(s[Len(s)]))

\* what C6 says parseArgs gives for the list s
IsParsedList(s, items) ==
    IF TrimSpace(s) = << >> THEN items = << >>
    ELSE /\ Len(items) = Len(Split(s))
         /\ \A i \in DOMAIN items :
               /\ NoSpaceAround(items[i])
               /\ Contains(Split(s)[i], items[i])

\* C6: parseArgs gives the empty sequence for an empty or wholly-whitespace
\* list and the trimmed comma-separated items, in order, for any other one,
\* for the command line's arguments and for the annotation's parameters.
C6_ParseArgs ==
    pc = "check"
        => /\ IsParsedList(argString, ti.Args)
           /\ IsParsedList(TheAnnotation.params, templateArgs)

\* the first character (rune) of s lower-cased
LowerFirstRune(s) ==
    IF s = << >> THEN s
    ELSE IF IsUpperAscii(s[1])
    THEN ToLowerByte(s[1], "keep") \o SubSeq(s, 2, Len(s))
    ELSE IF HasPrefixAt(s, UpperE, 1)
    THEN LowerE \o SubSeq(s, Len(UpperE) + 1, Len(s))
    ELSE s

\* the entry C7 gives a rename candidate
MangledName(name) ==
    LET r == IF Contains(name, templateName)
             THEN Replace1(name, templateName, ti.Name)
             ELSE name \o ti.Name
    IN IF ~IsExported(ti.Name) /\ IsExported(r) THEN LowerFirstRune(r) ELSE r

\* C7: the entry of every rename candidate that is not a formal parameter
\* is its name with the first occurrence of the template name replaced by
\* the instantiation name, or with the instantiation name appended, and
\* with its first character lower-cased under a non-exported instantiation
\* name.
C7_MangledEntries ==
    MappingsComplete
        => \A i \in DOMAIN namesToMangle :
              ~containsString(namesToMangle[i], templateArgs)
                  => /\ namesToMangle[i] \in DOMAIN mappings
                     /\ mappings[namesToMangle[i]] = MangledName(namesToMangle[i])

\* C8: in the completed mapping every formal parameter maps to the concrete
\* argument at its position.
C8_FormalParametersKept ==
    MappingsComplete
        => \A i \in DOMAIN templateArgs :
              /\ templateArgs[i] \in DOMAIN mappings
              /\ mappings[templateArgs[i]] = ti.Args[i]

\* C9: with two or more template annotations among the comments, parse
\* ends in the multiple-template-definitions fatal condition and writes no
\* file.
C9_MultipleDefinitionsAbort ==
    (Cardinality(MatchingComments) >= 2 /\ pc # "start")
        => /\ pc = "fatal"
           /\ fatal = "multiple"
           /\ files = prevFiles
           /\ files = EmptyMap

C9_Witness ==
    /\ Cardinality(MatchingComments) >= 2
    /\ pc = "fatal"
    /\ fatal = "multiple"

\* the names the kept declarations of the template declare
KeptNames ==
    UNION { Range(decls[i].names) : i \in { j \in DOMAIN decls : Declares(decls[j]) } }

\* C10: two kept top-level declarations with different names never get
\* the same replacement name.
C10_ManglingInjective ==
    pc = "done"
        => \A n1, n2 \in KeptNames :
              n1 # n2 => mappings[n1] # mappings[n2]

====
